---------------------------- MODULE Spec2Model ----------------------------
(***************************************************************************)
(* Model of polytokenizer's token-budgeted text segmentation               *)
(* (splitTextMaxTokens) and message trimming (trimMessages),               *)
(* src/src/index.ts lines 674-829.                                         *)
(*                                                                         *)
(* A text is a sequence of one-character strings: a word character (\w),   *)
(* a sentence terminator ([.?!]), the space and the newline, which is what *)
(* the three splitter patterns distinguish.                                *)
(***************************************************************************)
EXTENDS Integers, Sequences, FiniteSets, TLC

(***************************************************************************)
(* Bounds of the model.                                                    *)
(***************************************************************************)
MaxLen == 5
MaxCeiling == 3
\* how many counting calls of one operation may throw
MaxThrows == 1

Chars == {"a", ".", " ", "\n"}

IsSpace(c) == c \in {" ", "\n"}
IsNewline(c) == c = "\n"
IsWordChar(c) == c = "a"
IsTerminator(c) == c = "."

RECURSIVE SeqsUpTo(_, _)
SeqsUpTo(S, n) ==
    IF n = 0 THEN {<<>>}
    ELSE LET shorter == SeqsUpTo(S, n - 1)
         IN  shorter \cup {Append(s, c) : s \in {t \in shorter : Len(t) = n - 1}, c \in S}

(***************************************************************************)
(* The texts a call is given: every text of words, spaces and newlines up  *)
(* to MaxLen characters, and the short texts with a terminator before,     *)
(* after or away from whitespace.                                          *)
(***************************************************************************)
Punctuated ==
    {pre \o <<".">> \o post :
       pre \in {<<>>, <<"a">>, <<" ">>},
       post \in {<<"a">>, <<" ", "a">>, <<"\n", "a">>, <<" ", " ", "a">>}}

\* four words, between spaces or between newlines and a space
Worded ==
    {<<"a", " ", "a", " ", "a", " ", "a">>,
     <<"a", "\n", "a", " ", "a", "\n", "a">>}

Texts == SeqsUpTo({"a", " ", "\n"}, MaxLen) \cup Punctuated \cup Worded

(***************************************************************************)
(* The token counters a call can be bound to: "words" counts the maximal   *)
(* runs of non-whitespace characters, "chars" counts every character       *)
(* (a byte-level tokenizer).  Both give 0 for the empty text.              *)
(***************************************************************************)
Tokenizers == {"words", "chars"}

RECURSIVE WordCount(_, _)
WordCount(text, i) ==
    IF i > Len(text) THEN 0
    ELSE (IF ~IsSpace(text[i]) /\ (i = 1 \/ IsSpace(text[i - 1])) THEN 1 ELSE 0)
         + WordCount(text, i + 1)

countTokens(model, text) ==
    IF model = "words" THEN WordCount(text, 1) ELSE Len(text)

\* a slip: one token is estimated for every character
estimateTokensPerCharacter(text) == Len(text)

\* Math.ceil(text.length / 4)
estimateTokens(text) == (Len(text) + 3) \div 4

\* a slip: the estimate is used even when the counting call succeeds
tryCountTokensEstimating(model, text, throws) == estimateTokens(text)

\* tryCountTokens: the count, or the estimate when the counting call throws.
tryCountTokens(model, text, throws) ==
    IF throws THEN estimateTokens(text) ELSE countTokens(model, text)

(***************************************************************************)
(* The splitters, in the order they are pushed:                            *)
(*   1: /\n+/g   2: /(?<=\w[.?!])\s+/g   3: /\s+/g                         *)
(***************************************************************************)
InRun(k, c) == IF k = 1 THEN IsNewline(c) ELSE IsSpace(c)

MatchStarts(k, text, i) ==
    /\ InRun(k, text[i])
    /\ k = 2 => /\ i >= 3
                /\ IsWordChar(text[i - 2])
                /\ IsTerminator(text[i - 1])

RECURSIVE RunEnd(_, _, _)
RunEnd(k, text, i) ==
    IF i < Len(text) /\ InRun(k, text[i + 1]) THEN RunEnd(k, text, i + 1) ELSE i

\* String.prototype.split(regex) for a pattern that never matches the empty string
RECURSIVE SplitFrom(_, _, _, _)
SplitFrom(k, text, i, piece) ==
    IF i > Len(text) THEN <<piece>>
    ELSE IF MatchStarts(k, text, i)
         THEN <<piece>> \o SplitFrom(k, text, RunEnd(k, text, i) + 1, <<>>)
         ELSE SplitFrom(k, text, i + 1, Append(piece, text[i]))

split(text, k) == SplitFrom(k, text, 1, <<>>)

splitters(preserveSentences, preserveWords) ==
    (IF preserveSentences THEN <<1, 2>> ELSE <<>>)
    \o (IF preserveWords THEN <<3>> ELSE <<>>)


(***************************************************************************)
(* State.  splitTextMaxTokens: its arguments (text, model, maxTokens,      *)
(* options), its locals (parts, the splitter being applied, chunks,        *)
(* currentChunk, currentTokens, the packing loop's position) and how the   *)
(* call ended.  counted logs every tryCountTokens call: the text, whether  *)
(* countTokens threw, and the number tryCountTokens returned.              *)
(***************************************************************************)
VARIABLES text, model, maxTokens, preserveSentences, preserveWords,
          pc, parts, pass, chunks, currentChunk, currentTokens, next,
          error, counted

splitVars == <<text, model, maxTokens, preserveSentences, preserveWords,
               pc, parts, pass, chunks, currentChunk, currentTokens, next,
               error, counted>>

splitArgs == <<text, model, maxTokens, preserveSentences, preserveWords>>

(***************************************************************************)
(* State of trimMessages: its arguments, its locals (messageTokens,        *)
(* selectedMessages, selectedTokens, the scan's position in                *)
(* nonSystemMessages), the entries the returned messages are taken from    *)
(* (result), the returned messages (trimmed) and how the call ended;       *)
(* trimCounted logs its tryCountTokens calls.  overheads holds the         *)
(* extraTokensPerMessage and extraTokensTotal fields of the options the    *)
(* caller passes, each a set: empty when the field is not supplied.        *)
(***************************************************************************)
VARIABLES messages, trimModel, trimMaxTokens, strategy, preserveSystem, overheads,
          trimPc, messageTokens, selectedMessages, selectedTokens, scan,
          result, trimmed, trimError, trimCounted

trimVars == <<messages, trimModel, trimMaxTokens, strategy, preserveSystem,
              overheads, trimPc, messageTokens, selectedMessages, selectedTokens, scan,
              result, trimmed, trimError, trimCounted>>

trimArgs == <<messages, trimModel, trimMaxTokens, strategy, preserveSystem,
              overheads>>

(***************************************************************************)
(* State of the provider registry of index.ts: the stored configuration    *)
(* (config: provider name to its settings, a name that is not configured   *)
(* is not in the domain), the environment variables holding API keys       *)
(* (env), the cache of provider instances (providers) and the number of    *)
(* instances constructed so far (constructed), which gives every instance  *)
(* its identity.  outcome describes the last call of configure, embedText  *)
(* or countTokens: its argument, how it ended, whether createProvider was  *)
(* entered and the instance the call was handed to.                        *)
(***************************************************************************)
VARIABLES config, env, providers, constructed, outcome

registryVars == <<config, env, providers, constructed, outcome>>

\* a function with no entries: {} of the source
Empty == [name \in {} |-> "none"]

NoCall ==
    [op |-> "none", model |-> <<>>, ended |-> "none",
     createProviderEntered |-> FALSE, instance |-> 0]

RegistryIdle ==
    /\ config = Empty /\ env = Empty /\ providers = Empty
    /\ constructed = 0 /\ outcome = NoCall

(***************************************************************************)
(* State of a provider adapter (AnthropicProvider or GoogleProvider) and   *)
(* of one countTokens call on it: tokenCountCache holds the entries of the *)
(* LRU cache, the most recently used last; request is the call's model     *)
(* and text, adapterPc its position, attemptLog the responses of the       *)
(* requests backOff has made for it, and ending how it ended.  stored is   *)
(* history: the count each cache key last got from a successful request.   *)
(***************************************************************************)
VARIABLES adapter, tokenCountCache, stored, adapterPc, request, attemptLog, ending

adapterVars == <<adapter, tokenCountCache, stored, adapterPc, request,
                 attemptLog, ending>>

NoRequest == [model |-> "none", text |-> <<>>]

NoEnding ==
    [kind |-> "none", value |-> 0, wasCached |-> FALSE, wasStored |-> FALSE,
     storedCount |-> 0]

AdapterIdle ==
    /\ adapter = "none" /\ tokenCountCache = <<>> /\ stored = Empty
    /\ adapterPc = "idle" /\ request = NoRequest /\ attemptLog = <<>>
    /\ ending = NoEnding

(***************************************************************************)
(* State of the delimiter passes of splitTextMaxTokens seen call by call:  *)
(* fanArgs holds the text, the model and maxTokens, fanParts the parts     *)
(* the pass maps over, fanPass the position of its splitter, slots the     *)
(* segments async.flatMap and async.map produce for it, results the array  *)
(* their values are collected in, inFlight the slots whose tryCountTokens  *)
(* call has not returned, and events the calls issued and returned so far, *)
(* in order.                                                               *)
(***************************************************************************)
VARIABLES fanArgs, fanPc, fanParts, fanPass, slots, results, inFlight, events

fanVars == <<fanArgs, fanPc, fanParts, fanPass, slots, results, inFlight, events>>

FanIdle ==
    /\ fanArgs = [text |-> <<>>, model |-> "words", maxTokens |-> 0]
    /\ fanPc = "idle" /\ fanParts = <<>> /\ fanPass = 0 /\ slots = <<>>
    /\ results = <<>> /\ inFlight = {} /\ events = <<>>

(***************************************************************************)
(* A caller that calls trimMessages twice with a counting function that    *)
(* does not change: twiceArgs holds the first call's arguments and the     *)
(* texts countTokens throws for, firstCall what it returned, secondCall    *)
(* the second call: on the first call's output with the same maxTokens     *)
(* ("again"), or on the same messages with a maxTokens that is not         *)
(* smaller ("larger"), and what it returned.                               *)
(***************************************************************************)
VARIABLES twiceArgs, twicePc, firstCall, secondCall

twiceVars == <<twiceArgs, twicePc, firstCall, secondCall>>

NoReturn == [entries |-> <<>>, messages |-> <<>>]

TwiceIdle ==
    /\ twiceArgs = [messages |-> <<>>, maxTokens |-> 0, strategy |-> "early",
                    preserveSystem |-> TRUE, failing |-> {}]
    /\ twicePc = "idle"
    /\ firstCall = NoReturn
    /\ secondCall = [run |-> "none", maxTokens |-> 0, returned |-> NoReturn]

\* the components beside splitTextMaxTokens and trimMessages
restVars == <<registryVars, adapterVars, fanVars, twiceVars>>

RestIdle == RegistryIdle /\ AdapterIdle /\ FanIdle /\ TwiceIdle

vars == <<splitVars, trimVars, restVars>>

\* what a step of one operation leaves alone
notSplit == <<trimVars, restVars>>
notTrim == <<splitVars, restVars>>
notRegistry == <<splitVars, trimVars, adapterVars, fanVars, twiceVars>>
notAdapter == <<splitVars, trimVars, registryVars, fanVars, twiceVars>>
notFan == <<splitVars, trimVars, registryVars, adapterVars, twiceVars>>
notTwice == <<splitVars, trimVars, registryVars, adapterVars, fanVars>>

Call(model_, segment, throws) ==
    [text |-> segment, threw |-> throws,
     tokens |-> tryCountTokens(model_, segment, throws)]

\* the variables of an operation that is not called
SplitIdle ==
    /\ text = <<>> /\ model = "words" /\ maxTokens = 0
    /\ preserveSentences = TRUE /\ preserveWords = TRUE
    /\ pc = "idle" /\ parts = <<>> /\ pass = 0 /\ chunks = <<>>
    /\ currentChunk = <<>> /\ currentTokens = 0 /\ next = 0
    /\ error = "none" /\ counted = <<>>

TrimIdle ==
    /\ messages = <<>> /\ trimModel = "words" /\ trimMaxTokens = 0
    /\ strategy = "early" /\ preserveSystem = TRUE
    /\ overheads = [extraTokensPerMessage |-> {}, extraTokensTotal |-> {}]
    /\ trimPc = "idle" /\ messageTokens = <<>> /\ selectedMessages = <<>>
    /\ selectedTokens = 0 /\ scan = 0 /\ result = <<>> /\ trimmed = <<>>
    /\ trimError = "none" /\ trimCounted = <<>>

\* the number of logged calls that threw
Throws(log) == Cardinality({i \in 1 .. Len(log) : log[i].threw})

SplitInit ==
    /\ text \in Texts
    /\ model \in Tokenizers
    /\ maxTokens \in -1 .. MaxCeiling
    /\ preserveSentences \in BOOLEAN
    /\ preserveWords \in BOOLEAN
    /\ pc = "guard"
    /\ parts = <<>>
    /\ pass = 0
    /\ chunks = <<>>
    /\ currentChunk = <<>>
    /\ currentTokens = 0
    /\ next = 0
    /\ error = "none"
    /\ counted = <<>>
    /\ TrimIdle
    /\ RestIdle

SplitReturn(returned) ==
    /\ pc' = "returned"
    /\ chunks' = returned

\* a slip: only the empty text is returned without splitting
nothingToSplitEmptyOnly(text_, ceiling) == text_ = <<>>

\* line 696: !text || maxTokens <= 0
nothingToSplit(text_, ceiling) == text_ = <<>> \/ ceiling <= 0

\* a slip: the empty text is returned as a chunk
unsplitAlways(text_) == <<text_>>

\* line 697: text ? [text] : []
unsplit(text_) == IF text_ # <<>> THEN <<text_>> ELSE <<>>

\* lines 696-702: the empty text, the non-positive ceiling, the estimate shortcut
SplitGuard ==
    /\ pc = "guard"
    /\ IF nothingToSplit(text, maxTokens)
       THEN SplitReturn(unsplit(text))
       ELSE IF 2 * estimateTokens(text) <= maxTokens
            THEN SplitReturn(<<text>>)
            ELSE pc' = "count" /\ chunks' = chunks
    /\ UNCHANGED <<notSplit, splitArgs,
                   parts, pass, currentChunk, currentTokens, next, error, counted>>

\* line 705
WholeFits(tokenCount, ceiling) == tokenCount <= ceiling

\* a slip: the call rejects when counting the whole text throws
SplitCountWholeRejecting ==
    /\ pc = "count"
    /\ \E throws \in {b \in BOOLEAN : b => Throws(counted) < MaxThrows} :
         LET call == Call(model, text, throws)
         IN  /\ counted' = Append(counted, call)
             /\ IF throws
                THEN /\ pc' = "threw"
                     /\ error' = "countTokens failed"
                     /\ UNCHANGED <<parts, pass, chunks>>
                ELSE /\ error' = error
                     /\ IF WholeFits(call.tokens, maxTokens)
                        THEN /\ SplitReturn(<<text>>)
                             /\ UNCHANGED <<parts, pass>>
                        ELSE /\ parts' = <<[text |-> text, tokens |-> call.tokens]>>
                             /\ pass' = 1
                             /\ pc' = "pass"
                             /\ chunks' = chunks
    /\ UNCHANGED <<notSplit, splitArgs, currentChunk, currentTokens, next>>

\* lines 704-708: the whole text is counted
SplitCountWhole ==
    /\ pc = "count"
    /\ \E throws \in {b \in BOOLEAN : b => Throws(counted) < MaxThrows} :
         LET call == Call(model, text, throws)
         IN  /\ counted' = Append(counted, call)
             /\ IF WholeFits(call.tokens, maxTokens)
                THEN /\ SplitReturn(<<text>>)
                     /\ UNCHANGED <<parts, pass>>
                ELSE /\ parts' = <<[text |-> text, tokens |-> call.tokens]>>
                     /\ pass' = 1
                     /\ pc' = "pass"
                     /\ chunks' = chunks
    /\ UNCHANGED <<notSplit, splitArgs,
                   currentChunk, currentTokens, next, error>>

(***************************************************************************)
(* One pass, lines 715-725.  A part within the ceiling is kept; a larger   *)
(* one is replaced by its segments, each counted.  Segments(ps, k) lists   *)
(* the entries of the new parts in order: kept parts and segment texts.    *)
(***************************************************************************)
\* a slip: every part is split again, also one within the ceiling
RECURSIVE SegmentsOfAll(_, _, _)
SegmentsOfAll(ps, k, ceiling) ==
    IF ps = <<>> THEN <<>>
    ELSE LET segs == split(Head(ps).text, k)
         IN  [i \in 1 .. Len(segs) |->
                [kept |-> FALSE, part |-> [text |-> segs[i], tokens |-> 0]]]
             \o SegmentsOfAll(Tail(ps), k, ceiling)

RECURSIVE Segments(_, _, _)
Segments(ps, k, ceiling) ==
    IF ps = <<>> THEN <<>>
    ELSE LET part == Head(ps)
             mine == IF part.tokens <= ceiling
                     THEN <<[kept |-> TRUE, part |-> part]>>
                     ELSE LET segs == split(part.text, k)
                          IN  [i \in 1 .. Len(segs) |->
                                 [kept |-> FALSE,
                                  part |-> [text |-> segs[i], tokens |-> 0]]]
         IN  mine \o Segments(Tail(ps), k, ceiling)

\* the new parts, given which of the counting calls throw
PassParts(segs, model_, throwing) ==
    [i \in 1 .. Len(segs) |->
       IF segs[i].kept THEN segs[i].part
       ELSE [text |-> segs[i].part.text,
             tokens |-> tryCountTokens(model_, segs[i].part.text, i \in throwing)]]

PassCalls(segs, model_, throwing) ==
    LET measured == SelectSeq([i \in 1 .. Len(segs) |-> [at |-> i, seg |-> segs[i]]],
                              LAMBDA e : ~e.seg.kept)
    IN  [j \in 1 .. Len(measured) |->
           Call(model_, measured[j].seg.part.text, measured[j].at \in throwing)]

SplitPass ==
    /\ pc = "pass"
    /\ pass <= Len(splitters(preserveSentences, preserveWords))
    /\ LET k == splitters(preserveSentences, preserveWords)[pass]
           segs == Segments(parts, k, maxTokens)
           measured == {i \in 1 .. Len(segs) : ~segs[i].kept}
       IN  \E throwing \in {t \in SUBSET measured :
                                Throws(counted) + Cardinality(t) <= MaxThrows} :
             /\ parts' = PassParts(segs, model, throwing)
             /\ counted' = counted \o PassCalls(segs, model, throwing)
    /\ pass' = pass + 1
    /\ UNCHANGED <<notSplit, splitArgs,
                   pc, chunks, currentChunk, currentTokens, next, error>>

\* a slip: a part exactly at the ceiling counts as oversized
oversizedPartsAtCeiling(ps, ceiling) == SelectSeq(ps, LAMBDA p : p.tokens >= ceiling)

\* line 727
oversizedParts(ps, ceiling) == SelectSeq(ps, LAMBDA p : p.tokens > ceiling)

\* lines 727-734: the oversized check, then the packing loop's initial state
SplitCheckOversized ==
    /\ pc = "pass"
    /\ pass > Len(splitters(preserveSentences, preserveWords))
    /\ IF Len(oversizedParts(parts, maxTokens)) > 0
       THEN /\ pc' = "threw"
            /\ error' = "Failed to split"
            /\ UNCHANGED <<chunks, currentChunk, currentTokens, next>>
       ELSE /\ pc' = "pack"
            /\ chunks' = <<>>
            /\ currentChunk' = <<>>
            /\ currentTokens' = 0
            /\ next' = 1
            /\ error' = error
    /\ UNCHANGED <<notSplit, splitArgs,
                   parts, pass, counted>>

\* a slip: the parts of a chunk are joined without the separator
PackPartNoSeparator(acc, part, ceiling) ==
    IF acc.currentTokens + part.tokens <= ceiling
    THEN [chunks |-> acc.chunks,
          currentChunk |-> acc.currentChunk \o part.text,
          currentTokens |-> acc.currentTokens + part.tokens]
    ELSE [chunks |-> IF acc.currentChunk # <<>>
                     THEN Append(acc.chunks, acc.currentChunk)
                     ELSE acc.chunks,
          currentChunk |-> part.text,
          currentTokens |-> part.tokens]

\* a slip: the running total is not reset when a chunk is closed
PackPartNoReset(acc, part, ceiling) ==
    IF acc.currentTokens + part.tokens <= ceiling
    THEN [chunks |-> acc.chunks,
          currentChunk |-> acc.currentChunk
                           \o (IF acc.currentChunk # <<>> THEN <<"\n">> ELSE <<>>)
                           \o part.text,
          currentTokens |-> acc.currentTokens + part.tokens]
    ELSE [chunks |-> IF acc.currentChunk # <<>>
                     THEN Append(acc.chunks, acc.currentChunk)
                     ELSE acc.chunks,
          currentChunk |-> part.text,
          currentTokens |-> acc.currentTokens + part.tokens]

\* a slip: a chunk is closed after every part
PackPartOnePerChunk(acc, part, ceiling) ==
    [chunks |-> IF acc.currentChunk # <<>>
                THEN Append(acc.chunks, acc.currentChunk)
                ELSE acc.chunks,
     currentChunk |-> part.text,
     currentTokens |-> part.tokens]

\* lines 737-746: one iteration of the packing loop
PackPart(acc, part, ceiling) ==
    IF acc.currentTokens + part.tokens <= ceiling
    THEN [chunks |-> acc.chunks,
          currentChunk |-> acc.currentChunk
                           \o (IF acc.currentChunk # <<>> THEN <<"\n">> ELSE <<>>)
                           \o part.text,
          currentTokens |-> acc.currentTokens + part.tokens]
    ELSE [chunks |-> IF acc.currentChunk # <<>>
                     THEN Append(acc.chunks, acc.currentChunk)
                     ELSE acc.chunks,
          currentChunk |-> part.text,
          currentTokens |-> part.tokens]

SplitPackStep ==
    /\ pc = "pack"
    /\ next <= Len(parts)
    /\ LET acc == PackPart([chunks |-> chunks, currentChunk |-> currentChunk,
                            currentTokens |-> currentTokens],
                           parts[next], maxTokens)
       IN  /\ chunks' = acc.chunks
           /\ currentChunk' = acc.currentChunk
           /\ currentTokens' = acc.currentTokens
    /\ next' = next + 1
    /\ UNCHANGED <<notSplit, splitArgs,
                   pc, parts, pass, error, counted>>

\* a slip: the open chunk is pushed even when it is empty
pushOpenChunkAlways(cs, open) == Append(cs, open)

\* lines 749-751: if (currentChunk) chunks.push(currentChunk)
pushOpenChunk(cs, open) == IF open # <<>> THEN Append(cs, open) ELSE cs

\* lines 749-753: the open chunk is pushed and the chunks are returned
SplitPackFinish ==
    /\ pc = "pack"
    /\ next > Len(parts)
    /\ SplitReturn(pushOpenChunk(chunks, currentChunk))
    /\ UNCHANGED <<notSplit, splitArgs,
                   parts, pass, currentChunk, currentTokens, next, error, counted>>

splitTextMaxTokens ==
    \/ SplitGuard
    \/ SplitCountWhole
    \/ SplitPass
    \/ SplitCheckOversized
    \/ SplitPackStep
    \/ SplitPackFinish

(***************************************************************************)
(* trimMessages, lines 756-829.  A message is a role and a content; an     *)
(* entry of messageTokens is a message with its token cost, and index      *)
(* stands for the identity of the entry object (what findIndex compares).  *)
(***************************************************************************)
MaxMessages == 3
MaxBudget == 17

\* trimMessages tells "system" from every other role; "user" stands for those
Roles == {"system", "user"}
\* one word of five characters, which ceil(length / 4) overestimates for a word
\* tokenizer, and three words in five characters, which it underestimates
Contents == {<<"a", "a", "a", "a", "a">>, <<"a", " ", "a", " ", "a">>}
Messages == [role : Roles, content : Contents]
Strategies == {"early", "late"}

\* the counter trimMessages is bound to: with the word counter and Contents,
\* ceil(length / 4) is above the count for one content and below it for the other
TrimTokenizers == {"words"}

\* the overhead options a caller passes: none, or 0 and 0 (what the README
\* gives for models other than OpenAI's)
OverheadOptions ==
    {[extraTokensPerMessage |-> {}, extraTokensTotal |-> {}],
     [extraTokensPerMessage |-> {0}, extraTokensTotal |-> {0}]}

\* lines 764-765: constants of the function body; options is not read for them
extraTokensPerMessage == 4
extraTokensTotal == 2

TrimInit ==
    /\ messages \in SeqsUpTo(Messages, MaxMessages)
    /\ trimModel \in TrimTokenizers
    /\ trimMaxTokens \in -1 .. MaxBudget
    /\ strategy \in Strategies
    /\ preserveSystem \in BOOLEAN
    /\ overheads \in OverheadOptions
    /\ trimPc = "guard"
    /\ messageTokens = <<>>
    /\ selectedMessages = <<>>
    /\ selectedTokens = 0
    /\ scan = 0
    /\ result = <<>>
    /\ trimmed = <<>>
    /\ trimError = "none"
    /\ trimCounted = <<>>
    /\ SplitIdle
    /\ RestIdle

RECURSIVE SumTokens(_)
SumTokens(ms) == IF ms = <<>> THEN 0 ELSE Head(ms).tokens + SumTokens(Tail(ms))

\* a slip: the last entry's message is not returned
MessagesOfButLast(ms) == [i \in 1 .. Len(ms) - 1 |-> ms[i].message]

\* result.map(m => m.message)
MessagesOf(ms) == [i \in 1 .. Len(ms) |-> ms[i].message]

\* a slip: no message is taken for a system message
systemMessagesEmpty(ms) == <<>>

systemMessages(ms) == SelectSeq(ms, LAMBDA m : m.message.role = "system")
nonSystemMessages(ms) == SelectSeq(ms, LAMBDA m : m.message.role # "system")

\* lines 784-787
systemTokens(ms, preserve) == IF preserve THEN SumTokens(systemMessages(ms)) ELSE 0

\* a slip: the conversation overhead is not reserved
availableTokensNoOverhead(ms, preserve, budget) == budget - systemTokens(ms, preserve)

\* line 790
availableTokens(ms, preserve, budget) ==
    budget - systemTokens(ms, preserve) - extraTokensTotal

\* a slip: the conversation overhead is left out of the total
totalTokensNoOverhead(ms) == SumTokens(ms)

\* line 775
totalTokens(ms) == SumTokens(ms) + extraTokensTotal

TrimReturn(entries, returned) ==
    /\ trimPc' = "returned"
    /\ result' = entries
    /\ trimmed' = returned

\* a slip: a missing maxTokens is not checked for
missingMaxTokensUnchecked(budget) == FALSE

\* line 759: !maxTokens is true of 0 (and of undefined, which 0 stands for),
\* and false of every other number, the negative ones included
missingMaxTokens(budget) == budget = 0

\* a slip: an empty conversation is rejected
TrimGuardRejectingEmpty ==
    /\ trimPc = "guard"
    /\ IF missingMaxTokens(trimMaxTokens) \/ Len(messages) = 0
       THEN /\ trimPc' = "threw"
            /\ trimError' = "Must specify maxTokens"
            /\ UNCHANGED <<result, trimmed>>
       ELSE /\ trimError' = trimError
            /\ trimPc' = "count"
            /\ UNCHANGED <<result, trimmed>>
    /\ UNCHANGED <<notTrim, trimArgs, messageTokens, selectedMessages, selectedTokens,
                   scan, trimCounted>>

\* lines 759-761
TrimGuard ==
    /\ trimPc = "guard"
    /\ IF missingMaxTokens(trimMaxTokens)
       THEN /\ trimPc' = "threw"
            /\ trimError' = "Must specify maxTokens"
            /\ UNCHANGED <<result, trimmed>>
       ELSE /\ trimError' = trimError
            /\ IF Len(messages) = 0
               THEN TrimReturn(<<>>, <<>>)
               ELSE trimPc' = "count" /\ UNCHANGED <<result, trimmed>>
    /\ UNCHANGED <<notTrim, trimArgs, messageTokens, selectedMessages, selectedTokens,
                   scan, trimCounted>>

\* lines 767-771: every message's content is counted
TrimCount ==
    /\ trimPc = "count"
    /\ \E throwing \in {t \in SUBSET (1 .. Len(messages)) :
                            Cardinality(t) <= MaxThrows} :
         LET calls == [i \in 1 .. Len(messages) |->
                         Call(trimModel, messages[i].content, i \in throwing)]
         IN  /\ messageTokens' =
                   [i \in 1 .. Len(messages) |->
                      [index |-> i, message |-> messages[i],
                       tokens |-> calls[i].tokens + extraTokensPerMessage]]
             /\ trimCounted' = trimCounted \o calls
    /\ trimPc' = "total"
    /\ UNCHANGED <<notTrim, trimArgs, selectedMessages, selectedTokens, scan,
                   result, trimmed, trimError>>

\* a slip: both strategies scan from the oldest message
ScanStartOldest(strategy_, n) == 1

\* where each strategy's scan of nonSystemMessages starts, and its next position
ScanStart(strategy_, n) == IF strategy_ = "early" THEN n ELSE 1
ScanNext(strategy_, i) == IF strategy_ = "early" THEN i - 1 ELSE i + 1

\* lines 773-796: nothing to trim, no room beside the system messages, or the scan
TrimTotal ==
    /\ trimPc = "total"
    /\ IF totalTokens(messageTokens) <= trimMaxTokens
       THEN /\ TrimReturn(messageTokens, messages)
            /\ UNCHANGED <<selectedMessages, selectedTokens, scan>>
       ELSE IF availableTokens(messageTokens, preserveSystem, trimMaxTokens) <= 0
            THEN /\ LET kept == IF preserveSystem
                                THEN systemMessages(messageTokens)
                                ELSE <<>>
                    IN  TrimReturn(kept, MessagesOf(kept))
                 /\ UNCHANGED <<selectedMessages, selectedTokens, scan>>
            ELSE /\ trimPc' = "select"
                 /\ selectedMessages' = <<>>
                 /\ selectedTokens' = 0
                 /\ scan' = ScanStart(strategy, Len(nonSystemMessages(messageTokens)))
                 /\ UNCHANGED <<result, trimmed>>
    /\ UNCHANGED <<notTrim, trimArgs, messageTokens, trimError, trimCounted>>

\* a slip: a message that fills the budget exactly is not selected
FitsStrictly(selected, msg, available) == selected + msg.tokens < available

\* a slip: every scanned message is selected
FitsAlways(selected, msg, available) == TRUE

\* lines 801 and 810
Fits(selected, msg, available) == selected + msg.tokens <= available

\* lines 802 and 811: unshift under 'early', push under 'late'
Select(strategy_, selected, msg) ==
    IF strategy_ = "early" THEN <<msg>> \o selected ELSE Append(selected, msg)

ScanHasNext ==
    /\ scan >= 1
    /\ scan <= Len(nonSystemMessages(messageTokens))

\* lines 799-803 and 809-812: the scanned message fits and is selected
TrimSelect ==
    /\ trimPc = "select"
    /\ ScanHasNext
    /\ LET msg == nonSystemMessages(messageTokens)[scan]
       IN  /\ Fits(selectedTokens, msg,
                   availableTokens(messageTokens, preserveSystem, trimMaxTokens))
           /\ selectedMessages' = Select(strategy, selectedMessages, msg)
           /\ selectedTokens' = selectedTokens + msg.tokens
    /\ scan' = ScanNext(strategy, scan)
    /\ UNCHANGED <<notTrim, trimArgs, trimPc, messageTokens, result, trimmed,
                   trimError, trimCounted>>

\* the result array of lines 819-826: sorted by the entries' positions in messageTokens
RECURSIVE Insert(_, _)
Insert(sorted, m) ==
    IF sorted = <<>> THEN <<m>>
    ELSE IF m.index < Head(sorted).index
         THEN <<m>> \o sorted
         ELSE <<Head(sorted)>> \o Insert(Tail(sorted), m)

RECURSIVE SortByIndex(_)
SortByIndex(ms) ==
    IF ms = <<>> THEN <<>>
    ELSE Insert(SortByIndex(SubSeq(ms, 1, Len(ms) - 1)), ms[Len(ms)])

\* a slip: the system messages are left out of the result
AssembleSelectedOnly(system, selected, preserve) == SortByIndex(selected)

\* a slip: the result is not sorted back into the input order
AssembleUnsorted(system, selected, preserve) ==
    (IF preserve THEN system ELSE <<>>) \o selected

\* a slip: the system messages are kept whatever preserveSystem is
AssembleWithSystem(system, selected, preserve) == SortByIndex(system \o selected)

Assemble(system, selected, preserve) ==
    SortByIndex((IF preserve THEN system ELSE <<>>) \o selected)

\* lines 804-806, 813-815 and 819-828: the scan ends (break, or the list is
\* exhausted) and the result is assembled, sorted and returned
TrimFinish ==
    /\ trimPc = "select"
    /\ \/ ~ScanHasNext
       \/ /\ ScanHasNext
          /\ ~Fits(selectedTokens, nonSystemMessages(messageTokens)[scan],
                   availableTokens(messageTokens, preserveSystem, trimMaxTokens))
    /\ LET sorted == Assemble(systemMessages(messageTokens), selectedMessages,
                              preserveSystem)
       IN  TrimReturn(sorted, MessagesOf(sorted))
    /\ UNCHANGED <<notTrim, trimArgs, messageTokens, selectedMessages, selectedTokens,
                   scan, trimError, trimCounted>>

trimMessages ==
    \/ TrimGuard
    \/ TrimCount
    \/ TrimTotal
    \/ TrimSelect
    \/ TrimFinish

(***************************************************************************)
(* Specifications: one call of an operation, on every input within the     *)
(* bounds.  The other operation's variables stay at their idle values.     *)
(***************************************************************************)
SpecSplit == SplitInit /\ [][splitTextMaxTokens]_vars
SpecTrim == TrimInit /\ [][trimMessages]_vars

\* one call of either operation
Init == SplitInit \/ TrimInit
Next == splitTextMaxTokens \/ trimMessages
Spec == Init /\ [][Next]_vars

(***************************************************************************)
(* The provider registry of index.ts: parseModel, createProvider,          *)
(* getTokenizerProvider, getEmbeddingProvider, configure, embedText and    *)
(* countTokens.  A model string is the sequence of its names and slashes,  *)
(* so that split('/') has something to do.                                 *)
(***************************************************************************)
MaxInstances == 3

Slash == "/"

EMBEDDING_MODELS ==
    {<<"openai", Slash, "text-embedding-3-small">>,
     <<"openai", Slash, "text-embedding-3-large">>,
     <<"openai", Slash, "text-embedding-ada-002">>,
     <<"google", Slash, "gemini-embedding-exp-03-07">>,
     <<"google", Slash, "text-embedding-004">>,
     <<"google", Slash, "gemini-embedding-001">>,
     <<"vertex", Slash, "text-embedding-005">>,
     <<"vertex", Slash, "text-embedding-004">>,
     <<"vertex", Slash, "text-multilingual-embedding-002">>}

TOKENIZATION_PROVIDERS == {"openai", "anthropic", "google"}
EMBEDDING_PROVIDERS == {"openai", "google", "vertex"}

\* the model strings callers pass: without a slash, embedding models of the
\* three embedding providers, chat models, a provider without embeddings,
\* an unknown provider, and a string with two slashes
ModelNames ==
    {<<"gpt-4o">>,
     <<"openai", Slash, "text-embedding-3-small">>,
     <<"openai", Slash, "gpt-4o">>,
     <<"anthropic", Slash, "claude-sonnet-4-0">>,
     <<"google", Slash, "text-embedding-004">>,
     <<"vertex", Slash, "text-embedding-005">>,
     <<"cohere", Slash, "embed-v3">>,
     <<"openai", Slash, "text-embedding-3-small", Slash, "v2">>}

\* ProviderConfig and VertexConfig: a field that is not set is "none"
Settings(apiKey, baseURL, projectId) ==
    [apiKey |-> apiKey, baseURL |-> baseURL, projectId |-> projectId]

NoSettings == Settings("none", "none", "none")

Only(name, settings) == [n \in {name} |-> settings]

\* the LibraryConfig objects callers pass to configure
NewConfigs ==
    {Empty,
     Only("openai", Settings("k1", "none", "none")),
     Only("openai", Settings("k2", "none", "none")),
     Only("openai", Settings("none", "u1", "none")),
     Only("anthropic", Settings("k1", "none", "none")),
     Only("vertex", Settings("none", "none", "p1"))}

\* process.env: no key, or the key of the Gemini API
EnvOptions == {Empty, Only("GEMINI_API_KEY", "kenv")}

\* model.split('/')
RECURSIVE splitOnSlash(_)
splitOnSlash(model_) ==
    IF \A i \in 1 .. Len(model_) : model_[i] # Slash
    THEN <<model_>>
    ELSE LET i == CHOOSE k \in 1 .. Len(model_) :
                      /\ model_[k] = Slash
                      /\ \A j \in 1 .. k - 1 : model_[j] # Slash
         IN <<SubSeq(model_, 1, i - 1)>>
                \o splitOnSlash(SubSeq(model_, i + 1, Len(model_)))

\* the string of a part: the parts of ModelNames hold at most one name
NameOfPart(part) == IF part = <<>> THEN "" ELSE part[1]

parseModel(model_) ==
    LET pieces == splitOnSlash(model_)
    IN IF Len(pieces) < 2
       THEN [threw |-> TRUE, provider |-> "", modelName |-> ""]
       ELSE [threw |-> FALSE,
             provider |-> NameOfPart(pieces[1]),
             modelName |-> NameOfPart(pieces[2])]

\* config[providerName], read with ?.
Configured(config_, providerName) ==
    IF providerName \in DOMAIN config_ THEN config_[providerName] ELSE NoSettings

envVarMap ==
    [openai |-> "OPENAI_API_KEY",
     anthropic |-> "ANTHROPIC_API_KEY",
     google |-> "GEMINI_API_KEY"]

\* process.env[envVarMap[providerName]]
EnvironmentKey(env_, providerName) ==
    IF providerName \in DOMAIN envVarMap /\ envVarMap[providerName] \in DOMAIN env_
    THEN env_[envVarMap[providerName]]
    ELSE "none"

Failed(message) ==
    [threw |-> message, kind |-> "none", settings |-> NoSettings]

Constructed(kind, settings) ==
    [threw |-> "none", kind |-> kind, settings |-> settings]

createProvider(providerName, config_, env_) ==
    IF providerName = "vertex"
    THEN LET vertexConfig == Configured(config_, "vertex")
         IN IF vertexConfig.projectId = "none"
            THEN Failed("Vertex AI configuration missing")
            ELSE Constructed("VertexAIProvider",
                             Settings("none", "none", vertexConfig.projectId))
    ELSE LET providerConfig == Configured(config_, providerName)
             apiKey == IF providerConfig.apiKey # "none"
                       THEN providerConfig.apiKey
                       ELSE EnvironmentKey(env_, providerName)
         IN IF apiKey = "none"
            THEN Failed("API key not found")
            ELSE CASE providerName = "openai" ->
                        Constructed("OpenAIProvider",
                                    Settings(apiKey, providerConfig.baseURL, "none"))
                   [] providerName = "anthropic" ->
                        Constructed("AnthropicProvider",
                                    Settings(apiKey, providerConfig.baseURL, "none"))
                   [] providerName = "google" ->
                        Constructed("GoogleProvider",
                                    Settings(apiKey, "none", "none"))
                   [] OTHER -> Failed("Unsupported provider")

\* how a call ends and what it leaves in the registry
Ended(message, providers_, constructed_, entered, instance) ==
    [ended |-> message, providers |-> providers_, constructed |-> constructed_,
     createProviderEntered |-> entered, instance |-> instance]

\* the lazy creation both getTokenizerProvider and getEmbeddingProvider do
cachedOrCreated(providerName, config_, env_, providers_, constructed_) ==
    IF providerName \in DOMAIN providers_
    THEN Ended("returned", providers_, constructed_, FALSE,
               providers_[providerName].id)
    ELSE LET made == createProvider(providerName, config_, env_)
             id == constructed_ + 1
         IN IF made.threw # "none"
            THEN Ended(made.threw, providers_, constructed_, TRUE, 0)
            ELSE Ended("returned",
                       [n \in DOMAIN providers_ \cup {providerName} |->
                           IF n = providerName
                           THEN [id |-> id, kind |-> made.kind,
                                 settings |-> made.settings]
                           ELSE providers_[n]],
                       id, TRUE, id)

getTokenizerProvider(providerName, config_, env_, providers_, constructed_) ==
    IF providerName \notin TOKENIZATION_PROVIDERS
    THEN Ended("does not support tokenization", providers_, constructed_, FALSE, 0)
    ELSE cachedOrCreated(providerName, config_, env_, providers_, constructed_)

getEmbeddingProvider(providerName, config_, env_, providers_, constructed_) ==
    IF providerName \notin EMBEDDING_PROVIDERS
    THEN Ended("does not support embeddings", providers_, constructed_, FALSE, 0)
    ELSE cachedOrCreated(providerName, config_, env_, providers_, constructed_)

\* a slip: the provider is obtained before the model is looked up
embedTextProviderFirst(model_, config_, env_, providers_, constructed_) ==
    LET parsed == parseModel(model_)
        got == getEmbeddingProvider(parsed.provider, config_, env_,
                                    providers_, constructed_)
    IN IF parsed.threw
       THEN Ended("Invalid model format", providers_, constructed_, FALSE, 0)
       ELSE IF got.ended # "returned"
       THEN got
       ELSE IF model_ \notin EMBEDDING_MODELS
       THEN [got EXCEPT !.ended = "does not support embedding functionality",
                        !.instance = 0]
       ELSE got

\* embedText up to the call of the instance's embed
embedTextOutcome(model_, config_, env_, providers_, constructed_) ==
    LET parsed == parseModel(model_)
    IN IF parsed.threw
       THEN Ended("Invalid model format", providers_, constructed_, FALSE, 0)
       ELSE IF model_ \notin EMBEDDING_MODELS
       THEN Ended("does not support embedding functionality",
                  providers_, constructed_, FALSE, 0)
       ELSE getEmbeddingProvider(parsed.provider, config_, env_,
                                 providers_, constructed_)

\* countTokens up to the call of the instance's countTokens
countTokensOutcome(model_, config_, env_, providers_, constructed_) ==
    LET parsed == parseModel(model_)
    IN IF parsed.threw
       THEN Ended("Invalid model format", providers_, constructed_, FALSE, 0)
       ELSE IF parsed.provider \notin TOKENIZATION_PROVIDERS
       THEN Ended("does not support tokenization functionality",
                  providers_, constructed_, FALSE, 0)
       ELSE getTokenizerProvider(parsed.provider, config_, env_,
                                 providers_, constructed_)

\* { ...config, ...newConfig }
merged(config_, newConfig) ==
    [n \in DOMAIN config_ \cup DOMAIN newConfig |->
        IF n \in DOMAIN newConfig THEN newConfig[n] ELSE config_[n]]

\* a slip: the cached instances survive configure
clearedKeeping(providers_) == providers_

\* providers = {}
cleared(providers_) == Empty

RegistryInit ==
    /\ config = Empty
    /\ env \in EnvOptions
    /\ providers = Empty
    /\ constructed = 0
    /\ outcome = NoCall
    /\ SplitIdle
    /\ TrimIdle
    /\ AdapterIdle
    /\ FanIdle
    /\ TwiceIdle

RegistryCall(op, model_, call) ==
    /\ call.constructed <= MaxInstances
    /\ providers' = call.providers
    /\ constructed' = call.constructed
    /\ outcome' = [op |-> op, model |-> model_, ended |-> call.ended,
                   createProviderEntered |-> call.createProviderEntered,
                   instance |-> call.instance]
    /\ UNCHANGED <<config, env>>
    /\ UNCHANGED notRegistry

configure ==
    \E newConfig \in NewConfigs :
        /\ config' = merged(config, newConfig)
        /\ providers' = cleared(providers)
        /\ outcome' = [NoCall EXCEPT !.op = "configure", !.ended = "returned"]
        /\ UNCHANGED <<env, constructed>>
        /\ UNCHANGED notRegistry

embedText ==
    \E model_ \in ModelNames :
        RegistryCall("embedText", model_,
                     embedTextOutcome(model_, config, env, providers, constructed))

countTokensCall ==
    \E model_ \in ModelNames :
        RegistryCall("countTokens", model_,
                     countTokensOutcome(model_, config, env, providers, constructed))

registry ==
    \/ configure
    \/ embedText
    \/ countTokensCall

SpecRegistry == RegistryInit /\ [][registry]_vars

(***************************************************************************)
(* countTokens of AnthropicProvider and GoogleProvider: the cache lookup,  *)
(* the requests made under backOff and the caching of the count.  The      *)
(* delays between the attempts are left out.                               *)
(***************************************************************************)
\* the cache holds 10,000 entries in the source; the model's holds MaxCached,
\* so that a text can be counted after the cache has filled up
MaxCached == 2

numOfAttempts == 3

Adapters == {"anthropic", "google"}

AdapterModels(adapter_) ==
    IF adapter_ = "google"
    THEN {"gemini-2.5-flash", "gemini-embedding-001"}
    ELSE {"claude-sonnet-4-5"}

\* the texts counted: the empty text and three that are not blank
AdapterTexts == {<<>>, <<"a">>, <<"a", " ">>, <<"a", "a">>}

\* the token counts a response carries
Counts == {0, 2}

\* the HTTP statuses of failed requests; NoStatus is a failure that carries
\* none (the request did not get a response)
NoStatus == 0
Statuses == {NoStatus, 401, 429, 500, 599, 600}

Succeeds(count) == [ok |-> TRUE, status |-> 200, count |-> count]
Fails(status) == [ok |-> FALSE, status |-> status, count |-> 0]

\* !text || text.trim().length === 0
IsBlank(text_) == \A i \in 1 .. Len(text_) : IsSpace(text_[i])

\* GoogleProvider returns 0 for an empty text before the cache is read
returnsZeroUnasked(adapter_, text_) == adapter_ = "google" /\ IsBlank(text_)

EMBEDDING_TO_TOKENIZER_MODEL ==
    [m \in {"gemini-embedding-001"} |-> "gemini-2.5-flash"]

getTokenizerModel(model_) ==
    IF model_ \in DOMAIN EMBEDDING_TO_TOKENIZER_MODEL
    THEN EMBEDDING_TO_TOKENIZER_MODEL[model_]
    ELSE model_

\* `${model}:${text}`: the model's name, a colon, the characters of the text
cacheKey(adapter_, model_, text_) ==
    IF adapter_ = "google"
    THEN <<getTokenizerModel(model_), ":">> \o text_
    ELSE <<model_, ":">> \o text_

\* LRUCache: the entries without the one of the key
Without(cache, key) == SelectSeq(cache, LAMBDA entry : entry.key # key)

CacheHas(cache, key) == \E i \in 1 .. Len(cache) : cache[i].key = key

CacheValue(cache, key) ==
    cache[CHOOSE i \in 1 .. Len(cache) : cache[i].key = key].count

\* tokenCountCache.get(cacheKey) makes the entry the most recently used
cacheGet(cache, key) ==
    Without(cache, key) \o <<[key |-> key, count |-> CacheValue(cache, key)]>>

\* tokenCountCache.set(cacheKey, tokenCount) drops the least recently used
\* entry of a full cache
cacheSet(cache, key, count) ==
    LET entries == Without(cache, key) \o <<[key |-> key, count |-> count]>>
    IN IF Len(entries) > MaxCached THEN Tail(entries) ELSE entries

\* a slip: every failure is retried
retryEveryFailure(status) == TRUE

\* the retry option of backOff
retry(status) == status = 429 \/ (status >= 500 /\ status < 600)

AdapterInit ==
    /\ adapter \in Adapters
    /\ tokenCountCache = <<>>
    /\ stored = Empty
    /\ adapterPc = "idle"
    /\ request = NoRequest
    /\ attemptLog = <<>>
    /\ ending = NoEnding
    /\ SplitIdle
    /\ TrimIdle
    /\ RegistryIdle
    /\ FanIdle
    /\ TwiceIdle

\* what the call knew of its key when it was made
Ending(kind, value, key, cached) ==
    [kind |-> kind, value |-> value, wasCached |-> cached,
     wasStored |-> key \in DOMAIN stored,
     storedCount |-> IF key \in DOMAIN stored THEN stored[key] ELSE 0]

\* a call: up to the first request
AdapterCall ==
    /\ adapterPc \in {"idle", "ended"}
    /\ \E model_ \in AdapterModels(adapter), text_ \in AdapterTexts :
          LET key == cacheKey(adapter, model_, text_)
          IN /\ request' = [model |-> model_, text |-> text_]
             /\ attemptLog' = <<>>
             /\ IF returnsZeroUnasked(adapter, text_)
                THEN /\ adapterPc' = "ended"
                     /\ ending' = Ending("returned", 0, key, FALSE)
                     /\ UNCHANGED tokenCountCache
                ELSE IF CacheHas(tokenCountCache, key)
                THEN /\ adapterPc' = "ended"
                     /\ ending' = Ending("returned",
                                         CacheValue(tokenCountCache, key), key, TRUE)
                     /\ tokenCountCache' = cacheGet(tokenCountCache, key)
                ELSE /\ adapterPc' = "attempting"
                     /\ ending' = Ending("none", 0, key, FALSE)
                     /\ UNCHANGED tokenCountCache
    /\ UNCHANGED <<adapter, stored>>
    /\ UNCHANGED notAdapter

\* a request that gets a count: the count is cached and returned
AttemptSucceeds ==
    /\ adapterPc = "attempting"
    /\ \E count \in Counts :
          LET key == cacheKey(adapter, request.model, request.text)
          IN /\ attemptLog' = Append(attemptLog, Succeeds(count))
             /\ tokenCountCache' = cacheSet(tokenCountCache, key, count)
             /\ stored' = [k \in DOMAIN stored \cup {key} |->
                              IF k = key THEN count ELSE stored[k]]
             /\ ending' = [ending EXCEPT !.kind = "returned", !.value = count]
    /\ adapterPc' = "ended"
    /\ UNCHANGED <<adapter, request>>
    /\ UNCHANGED notAdapter

\* a request that fails: backOff makes another when retry allows it and
\* fewer than numOfAttempts have been made, and rethrows the error otherwise
AttemptFails ==
    /\ adapterPc = "attempting"
    /\ \E status \in Statuses :
          /\ attemptLog' = Append(attemptLog, Fails(status))
          /\ IF retry(status) /\ Len(attemptLog') < numOfAttempts
             THEN UNCHANGED <<adapterPc, ending>>
             ELSE /\ adapterPc' = "ended"
                  /\ ending' = [ending EXCEPT !.kind = "threw", !.value = status]
    /\ UNCHANGED <<adapter, tokenCountCache, stored, request>>
    /\ UNCHANGED notAdapter

providerCountTokens ==
    \/ AdapterCall
    \/ AttemptSucceeds
    \/ AttemptFails

SpecAdapter == AdapterInit /\ [][providerCountTokens]_vars

(***************************************************************************)
(* The delimiter passes of splitTextMaxTokens, lines 715-725, call by      *)
(* call.  async.flatMap starts the iteratee on every part at once and      *)
(* async.map starts tryCountTokens on every segment of a part at once;     *)
(* both put a value at the position of its item whenever it arrives, and   *)
(* the await of line 716 resumes the loop when every value has arrived.    *)
(* Counting does not throw here.                                           *)
(***************************************************************************)
Pending == -1

\* the texts whose count is over maxTokens, so that the passes are entered
FanInit ==
    /\ fanArgs \in {a \in [text : Texts, model : TrimTokenizers,
                           maxTokens : 1 .. MaxCeiling] :
                       /\ estimateTokens(a.text) * 2 > a.maxTokens
                       /\ countTokens(a.model, a.text) > a.maxTokens}
    /\ fanPc = "entered"
    /\ fanParts = <<>>
    /\ fanPass = 0
    /\ slots = <<>>
    /\ results = <<>>
    /\ inFlight = {}
    /\ events = <<>>
    /\ SplitIdle
    /\ TrimIdle
    /\ RegistryIdle
    /\ AdapterIdle
    /\ TwiceIdle

Issued(k, at) == [kind |-> "issued", pass |-> k, slot |-> at]
Returned(k, at) == [kind |-> "returned", pass |-> k, slot |-> at]

\* line 708: the parts the first pass maps over
FanEnter ==
    /\ fanPc = "entered"
    /\ fanParts' = <<[text |-> fanArgs.text,
                      tokens |-> countTokens(fanArgs.model, fanArgs.text)]>>
    /\ fanPass' = 1
    /\ fanPc' = "issue"
    /\ UNCHANGED <<fanArgs, slots, results, inFlight, events>>
    /\ UNCHANGED notFan

\* lines 716-724: every iteratee runs up to its await; a part that fits has
\* its value at once, every segment of a larger part has a call in flight
FanOut ==
    /\ fanPc = "issue"
    /\ LET segs == Segments(fanParts, splitters(TRUE, TRUE)[fanPass],
                            fanArgs.maxTokens)
           calls == SelectSeq([i \in 1 .. Len(segs) |-> i],
                              LAMBDA i : ~segs[i].kept)
       IN /\ slots' = segs
          /\ results' = [i \in 1 .. Len(segs) |->
                            IF segs[i].kept THEN segs[i].part
                            ELSE [text |-> segs[i].part.text, tokens |-> Pending]]
          /\ inFlight' = {i \in 1 .. Len(segs) : ~segs[i].kept}
          /\ events' = events \o [j \in 1 .. Len(calls) |-> Issued(fanPass, calls[j])]
    /\ fanPc' = "await"
    /\ UNCHANGED <<fanArgs, fanParts, fanPass>>
    /\ UNCHANGED notFan

\* a slip: a value is put at the first free position, in the order of arrival
placedOnArrival(results_, at, value) ==
    LET free == CHOOSE i \in 1 .. Len(results_) :
                    /\ results_[i].tokens = Pending
                    /\ \A j \in 1 .. i - 1 : results_[j].tokens # Pending
    IN [results_ EXCEPT ![free] = value]

\* async.map: results[index] = value
placed(results_, at, value) == [results_ EXCEPT ![at] = value]

\* a tryCountTokens call of the pass returns: any of those in flight
FanReturn ==
    /\ fanPc = "await"
    /\ \E at \in inFlight :
          /\ results' = placed(results, at,
                               [text |-> slots[at].part.text,
                                tokens |-> tryCountTokens(fanArgs.model,
                                                          slots[at].part.text, FALSE)])
          /\ inFlight' = inFlight \ {at}
          /\ events' = Append(events, Returned(fanPass, at))
    /\ UNCHANGED <<fanArgs, fanPc, fanParts, fanPass, slots>>
    /\ UNCHANGED notFan

\* the await of line 716: every value of the pass has arrived
joined(inFlight_, slots_) == inFlight_ = {}

\* line 716: parts is assigned and the loop goes to the next splitter
FanIn ==
    /\ fanPc = "await"
    /\ joined(inFlight, slots)
    /\ fanParts' = results
    /\ fanPass' = fanPass + 1
    /\ fanPc' = IF fanPass' > Len(splitters(TRUE, TRUE)) THEN "passed" ELSE "issue"
    /\ UNCHANGED <<fanArgs, slots, results, inFlight, events>>
    /\ UNCHANGED notFan

passes ==
    \/ FanEnter
    \/ FanOut
    \/ FanReturn
    \/ FanIn

SpecPasses == FanInit /\ [][passes]_vars

(***************************************************************************)
(* trimMessages as a function of its arguments, for a counting function    *)
(* that is one: countTokens throws for the texts of failing and for no     *)
(* other.  It is called twice: on its own output, or on the same messages  *)
(* with a larger maxTokens.                                                *)
(***************************************************************************)
\* lines 767-771
Counted(ms, model_, failing) ==
    [i \in 1 .. Len(ms) |->
        [index |-> i, message |-> ms[i],
         tokens |-> tryCountTokens(model_, ms[i].content, ms[i].content \in failing)
                        + extraTokensPerMessage]]

\* a slip: the scan goes on past a message that does not fit
RECURSIVE ScannedSkipping(_, _, _, _, _, _)
ScannedSkipping(strategy_, nonSystem, at, selected, selectedTokens_, available) ==
    IF at < 1 \/ at > Len(nonSystem)
    THEN selected
    ELSE IF Fits(selectedTokens_, nonSystem[at], available)
         THEN ScannedSkipping(strategy_, nonSystem, ScanNext(strategy_, at),
                              Select(strategy_, selected, nonSystem[at]),
                              selectedTokens_ + nonSystem[at].tokens, available)
         ELSE ScannedSkipping(strategy_, nonSystem, ScanNext(strategy_, at),
                              selected, selectedTokens_, available)

\* lines 798-816: the scan from position at on, up to its break
RECURSIVE Scanned(_, _, _, _, _, _)
Scanned(strategy_, nonSystem, at, selected, selectedTokens_, available) ==
    IF at < 1 \/ at > Len(nonSystem)
    THEN selected
    ELSE IF Fits(selectedTokens_, nonSystem[at], available)
         THEN Scanned(strategy_, nonSystem, ScanNext(strategy_, at),
                      Select(strategy_, selected, nonSystem[at]),
                      selectedTokens_ + nonSystem[at].tokens, available)
         ELSE selected

\* lines 761-828 for maxTokens >= 1: the entries of messageTokens that are
\* returned, and the messages returned
trimmedTo(ms, model_, budget, strategy_, preserve, failing) ==
    LET counts == Counted(ms, model_, failing)
        available == availableTokens(counts, preserve, budget)
        others == nonSystemMessages(counts)
    IN IF Len(ms) = 0
       THEN NoReturn
       ELSE IF totalTokens(counts) <= budget
       THEN [entries |-> counts, messages |-> ms]
       ELSE IF available <= 0
       THEN LET kept == IF preserve THEN systemMessages(counts) ELSE <<>>
            IN [entries |-> kept, messages |-> MessagesOf(kept)]
       ELSE LET sorted ==
                   Assemble(systemMessages(counts),
                            Scanned(strategy_, others,
                                    ScanStart(strategy_, Len(others)),
                                    <<>>, 0, available),
                            preserve)
            IN [entries |-> sorted, messages |-> MessagesOf(sorted)]

\* the texts countTokens throws for: none, or those of one of the contents
FailingOptions == {{}} \cup {{content} : content \in Contents}

TwiceInit ==
    /\ twiceArgs \in [messages : SeqsUpTo(Messages, MaxMessages),
                      maxTokens : 1 .. MaxBudget,
                      strategy : Strategies,
                      preserveSystem : BOOLEAN,
                      failing : FailingOptions]
    /\ twicePc = "first"
    /\ firstCall = NoReturn
    /\ secondCall = [run |-> "none", maxTokens |-> 0, returned |-> NoReturn]
    /\ SplitIdle
    /\ TrimIdle
    /\ RegistryIdle
    /\ AdapterIdle
    /\ FanIdle

TrimFirst ==
    /\ twicePc = "first"
    /\ firstCall' = trimmedTo(twiceArgs.messages, "words", twiceArgs.maxTokens,
                              twiceArgs.strategy, twiceArgs.preserveSystem,
                              twiceArgs.failing)
    /\ twicePc' = "second"
    /\ UNCHANGED <<twiceArgs, secondCall>>
    /\ UNCHANGED notTwice

\* trimMessages(await trimMessages(messages, model, maxTokens, options), ...)
TrimAgain ==
    /\ twicePc = "second"
    /\ secondCall' =
          [run |-> "again", maxTokens |-> twiceArgs.maxTokens,
           returned |-> trimmedTo(firstCall.messages, "words", twiceArgs.maxTokens,
                                  twiceArgs.strategy, twiceArgs.preserveSystem,
                                  twiceArgs.failing)]
    /\ twicePc' = "returned"
    /\ UNCHANGED <<twiceArgs, firstCall>>
    /\ UNCHANGED notTwice

\* trimMessages(messages, model, maxTokens2, options), maxTokens2 >= maxTokens
TrimLarger ==
    /\ twicePc = "second"
    /\ \E budget \in twiceArgs.maxTokens .. MaxBudget :
          secondCall' =
             [run |-> "larger", maxTokens |-> budget,
              returned |-> trimmedTo(twiceArgs.messages, "words", budget,
                                     twiceArgs.strategy, twiceArgs.preserveSystem,
                                     twiceArgs.failing)]
    /\ twicePc' = "returned"
    /\ UNCHANGED <<twiceArgs, firstCall>>
    /\ UNCHANGED notTwice

trimMessagesTwice ==
    \/ TrimFirst
    \/ TrimAgain
    \/ TrimLarger

SpecTrimTwice == TwiceInit /\ [][trimMessagesTwice]_vars

(***************************************************************************)
(* Properties.  Their helpers are written apart from the operators of the  *)
(* model above.                                                            *)
(***************************************************************************)
RECURSIVE Sum(_)
Sum(ns) == IF ns = <<>> THEN 0 ELSE Head(ns) + Sum(Tail(ns))

\* the maximal runs of non-whitespace characters of a text, in order
RECURSIVE WordsFrom(_, _, _)
WordsFrom(t, i, word) ==
    IF i > Len(t) THEN (IF word = <<>> THEN <<>> ELSE <<word>>)
    ELSE IF t[i] \in {" ", "\n"}
         THEN (IF word = <<>> THEN <<>> ELSE <<word>>) \o WordsFrom(t, i + 1, <<>>)
         ELSE WordsFrom(t, i + 1, Append(word, t[i]))

WordsOf(t) == WordsFrom(t, 1, <<>>)

RECURSIVE WordsOfAll(_)
WordsOfAll(ts) == IF ts = <<>> THEN <<>> ELSE WordsOf(Head(ts)) \o WordsOfAll(Tail(ts))

SplitEnded == pc \in {"returned", "threw"}
NumSplitters == (IF preserveSentences THEN 2 ELSE 0) + (IF preserveWords THEN 1 ELSE 0)

\* C1: every chunk splitTextMaxTokens returns for a ceiling >= 1, measured again
\* with the same counter, has at most maxTokens tokens.
C1_CeilingInvariant ==
    (pc = "returned" /\ maxTokens >= 1) =>
        \A i \in 1 .. Len(chunks) : countTokens(model, chunks[i]) <= maxTokens

C7_ImpossibleSplit ==
    /\ pc = "threw" =>
         /\ chunks = <<>>
         /\ pass > NumSplitters
         /\ \E i \in 1 .. Len(parts) : parts[i].tokens > maxTokens
    /\ (pc = "pack" \/ (pc = "returned" /\ pass >= 1)) =>
         \A i \in 1 .. Len(parts) : parts[i].tokens <= maxTokens

\* the call throws although some of the parts fit
C7_Witness ==
    /\ pc = "threw"
    /\ Len(parts) >= 2
    /\ \E i \in 1 .. Len(parts) : parts[i].text # <<>> /\ parts[i].tokens <= maxTokens

\* C8: the words of the returned chunks, read in order, are the words of the text.
C8_ContentPreserved ==
    pc = "returned" => WordsOfAll(chunks) = WordsOf(text)

\* several chunks, the first of them joined from more than one part
C8_Witness ==
    /\ pc = "returned"
    /\ Len(chunks) >= 2
    /\ Len(WordsOf(chunks[1])) >= 2

TokensOf(entries) == Sum([i \in 1 .. Len(entries) |-> entries[i].tokens])

\* the cost of messages as the counter measures them
MeasuredCost(ms) ==
    Sum([i \in 1 .. Len(ms) |-> countTokens(trimModel, ms[i].content) + 4])

IsSystem(m) == m.role = "system"
SystemOf(ms) == SelectSeq(ms, IsSystem)
SystemEntries(entries) == SelectSeq(entries, LAMBDA e : e.message.role = "system")
OtherEntries(entries) == SelectSeq(entries, LAMBDA e : e.message.role # "system")

\* what the call has left for the other messages, from the costs it computed
Available ==
    trimMaxTokens
    - (IF preserveSystem THEN TokensOf(SystemEntries(messageTokens)) ELSE 0) - 2

\* the same, from the costs as the counter measures them
MeasuredAvailable ==
    trimMaxTokens
    - (IF preserveSystem THEN MeasuredCost(SystemOf(messages)) ELSE 0) - 2

\* the call returned after finding the conversation over the budget
Trimmed == trimPc = "returned" /\ TokensOf(messageTokens) + 2 > trimMaxTokens

C4_SystemRetention ==
    (trimPc = "returned" /\ preserveSystem /\ trimMaxTokens >= 1) =>
        SystemOf(trimmed) = SystemOf(messages)

\* no room beside the system messages: they alone are returned
C4_Witness ==
    /\ Trimmed
    /\ preserveSystem
    /\ trimMaxTokens >= 1
    /\ Available <= 0
    /\ Len(SystemOf(messages)) = 2
    /\ Len(messages) = 3

RECURSIVE IsSubsequence(_, _)
IsSubsequence(out, in) ==
    IF out = <<>> THEN TRUE
    ELSE IF in = <<>> THEN FALSE
    ELSE IF Head(out) = Head(in)
         THEN IsSubsequence(Tail(out), Tail(in))
         ELSE IsSubsequence(out, Tail(in))

\* C5: the output is a subsequence of the input: each returned message is the
\* input message at a position of its own, and the positions increase.
C5_OrderPreserved ==
    trimPc = "returned" =>
        /\ IsSubsequence(trimmed, messages)
        /\ Len(result) = Len(trimmed)
        /\ \A i \in 1 .. Len(result) :
             /\ result[i].index \in 1 .. Len(messages)
             /\ trimmed[i] = messages[result[i].index]
        /\ \A i \in 1 .. Len(result) : \A j \in 1 .. Len(result) :
             i < j => result[i].index < result[j].index

\* a selected message is returned before a system message that follows it
C5_Witness ==
    /\ Trimmed
    /\ Len(trimmed) = 2
    /\ ~IsSystem(trimmed[1])
    /\ IsSystem(trimmed[2])

\* the longest suffix and the longest prefix of entries whose cost is within avail
SuffixOf(entries, k) == SubSeq(entries, Len(entries) - k + 1, Len(entries))
PrefixOf(entries, k) == SubSeq(entries, 1, k)

LongestSuffix(entries, avail) ==
    LET fitting == {k \in 0 .. Len(entries) : TokensOf(SuffixOf(entries, k)) <= avail}
    IN  SuffixOf(entries, CHOOSE k \in fitting : \A j \in fitting : j <= k)

LongestPrefix(entries, avail) ==
    LET fitting == {k \in 0 .. Len(entries) : TokensOf(PrefixOf(entries, k)) <= avail}
    IN  PrefixOf(entries, CHOOSE k \in fitting : \A j \in fitting : j <= k)

\* the evictable list of the design: the non-system messages, or every message
\* when preserveSystem is false
IsEvictable(e) == ~preserveSystem \/ e.message.role # "system"
Evictable(entries) == SelectSeq(entries, IsEvictable)

\* C9 as stated: under 'early' the retained evictable messages are the longest
\* suffix of the evictable list that fits in available.
C9_EarlyAsStated ==
    (Trimmed /\ Available > 0 /\ strategy = "early") =>
        Evictable(result) = LongestSuffix(Evictable(messageTokens), Available)

\* C9, amended: under 'early' the retained non-system messages are the longest
\* suffix of the non-system messages that fits in available; system messages
\* are never scanned, and are all dropped when preserveSystem is false.
C9_Early ==
    (Trimmed /\ Available > 0 /\ strategy = "early") =>
        /\ OtherEntries(result) = LongestSuffix(OtherEntries(messageTokens), Available)
        /\ ~preserveSystem => SystemEntries(result) = <<>>

\* the newest of three non-system messages is kept and an older one, which
\* would fit by itself, is dropped with the one the scan stopped at
C9_Witness ==
    /\ Trimmed
    /\ Available > 0
    /\ strategy = "early"
    /\ Len(OtherEntries(messageTokens)) = 3
    /\ Len(OtherEntries(result)) = 1
    /\ OtherEntries(messageTokens)[1].tokens <= Available - TokensOf(result)

\* C10 as stated: under 'late' the retained evictable messages are the longest
\* prefix of the evictable list that fits in available.
C10_LateAsStated ==
    (Trimmed /\ Available > 0 /\ strategy = "late") =>
        Evictable(result) = LongestPrefix(Evictable(messageTokens), Available)

\* C10, amended: under 'late' the retained non-system messages are the longest
\* prefix of the non-system messages that fits in available; system messages
\* are never scanned, and are all dropped when preserveSystem is false.
C10_Late ==
    (Trimmed /\ Available > 0 /\ strategy = "late") =>
        /\ OtherEntries(result) = LongestPrefix(OtherEntries(messageTokens), Available)
        /\ ~preserveSystem => SystemEntries(result) = <<>>

\* the oldest of three non-system messages is kept and a newer one, which
\* would fit by itself, is dropped with the one the scan stopped at
C10_Witness ==
    /\ Trimmed
    /\ Available > 0
    /\ strategy = "late"
    /\ Len(OtherEntries(messageTokens)) = 3
    /\ Len(OtherEntries(result)) = 1
    /\ OtherEntries(messageTokens)[3].tokens <= Available - TokensOf(result)

C11_NoSpecialStatusAsStated ==
    (Trimmed /\ ~preserveSystem /\ Available > 0) =>
        LET first == IF strategy = "early" THEN Len(messageTokens) ELSE 1
        IN  messageTokens[first].tokens <= Available =>
                \E i \in 1 .. Len(result) : result[i].index = first

\* C11, amended: with preserveSystem false no token is reserved for the system
\* messages and, once trimming is needed, none of them is returned: the scan
\* runs over the non-system messages only.  They are returned only by the
\* call that has nothing to trim.
C11_SystemDropped ==
    (trimPc = "returned" /\ ~preserveSystem) =>
        /\ Available = trimMaxTokens - 2
        /\ Trimmed => SystemOf(trimmed) = <<>>
        /\ ~Trimmed => trimmed = messages

\* the most recent message is a system message that fits, and it is dropped
\* while an older user message is retained
C11_Witness ==
    /\ Trimmed
    /\ ~preserveSystem
    /\ strategy = "early"
    /\ Available > 0
    /\ IsSystem(messages[Len(messages)])
    /\ messageTokens[Len(messages)].tokens <= Available
    /\ trimmed # <<>>

TrimEnded == trimPc \in {"returned", "threw"}

\* C12: a call given a maxTokens whose total exceeds it and whose available is
\* <= 0 does not throw; it returns exactly the system messages, in input
\* order, when preserveSystem is true, and no message when it is false.
C12_DegenerateBudget ==
    (TrimEnded /\ trimMaxTokens # 0
       /\ TokensOf(messageTokens) + 2 > trimMaxTokens /\ Available <= 0) =>
        /\ trimPc = "returned"
        /\ trimmed = IF preserveSystem THEN SystemOf(messages) ELSE <<>>

\* two system messages around a user message leave no room: both are
\* returned, the user message is not
C12_Witness ==
    /\ Trimmed
    /\ preserveSystem
    /\ trimMaxTokens >= 1
    /\ Available <= 0
    /\ Len(messages) = 3
    /\ IsSystem(messages[1]) /\ ~IsSystem(messages[2]) /\ IsSystem(messages[3])
    /\ trimmed = <<messages[1], messages[3]>>

\* C13 as stated: a call without a positive maxTokens throws, and has made no
\* counting call.
C13_MissingBudgetAsStated ==
    (TrimEnded /\ trimMaxTokens <= 0) =>
        (trimPc = "threw" /\ trimCounted = <<>>)

\* C13, amended: a call whose maxTokens is 0 or undefined throws 'Must specify
\* maxTokens' before any counting call, for every message list; a negative
\* maxTokens is not rejected: every message is counted and the call returns
\* the system messages when preserveSystem is true, no message otherwise.
C13_MissingBudget ==
    /\ (TrimEnded /\ trimMaxTokens = 0) =>
           /\ trimPc = "threw"
           /\ trimError = "Must specify maxTokens"
           /\ trimCounted = <<>>
           /\ trimmed = <<>>
    /\ (TrimEnded /\ trimMaxTokens < 0) =>
           /\ trimPc = "returned"
           /\ Len(trimCounted) = Len(messages)
           /\ trimmed = IF preserveSystem THEN SystemOf(messages) ELSE <<>>
    /\ trimPc = "threw" => trimMaxTokens = 0

\* a call with three messages and no maxTokens has thrown
C13_Witness ==
    /\ trimPc = "threw"
    /\ trimMaxTokens = 0
    /\ Len(messages) = MaxMessages
    /\ trimCounted = <<>>

Supplied(option, default) == IF option = {} THEN default ELSE CHOOSE v \in option : TRUE

\* C15: each message's cost is the number counted for its content plus the
\* caller's extraTokensPerMessage (4 when not supplied), and the call returns
\* the input untrimmed when these costs plus the caller's extraTokensTotal
\* (2 when not supplied) are within maxTokens.
C15_ConfigurableOverheads ==
    (TrimEnded /\ Len(messageTokens) = Len(messages) /\ messages # <<>>) =>
        /\ \A i \in 1 .. Len(messages) :
               messageTokens[i].tokens =
                   trimCounted[i].tokens + Supplied(overheads.extraTokensPerMessage, 4)
        /\ Sum([i \in 1 .. Len(messages) |->
                   trimCounted[i].tokens + Supplied(overheads.extraTokensPerMessage, 4)])
              + Supplied(overheads.extraTokensTotal, 2) <= trimMaxTokens =>
               trimmed = messages

\* C16 as stated: a call with messages whose total cost exceeds maxTokens
\* (>= 1) returns strictly fewer messages than it was given.
C16_ShortensAsStated ==
    (Trimmed /\ trimMaxTokens >= 1 /\ messages # <<>>) =>
        Len(trimmed) < Len(messages)

\* C16, amended: a call whose computed total exceeds maxTokens returns
\* strictly fewer messages than it was given, unless preserveSystem is true
\* and every message is a system message: then it returns them all.  (Of an
\* empty conversation there is nothing to return.)
C16_Shortens ==
    Trimmed =>
        IF \/ messages = <<>>
           \/ preserveSystem /\ \A i \in 1 .. Len(messages) : IsSystem(messages[i])
        THEN trimmed = messages
        ELSE Len(trimmed) < Len(messages)

\* under 'late' two of three messages, a system message among them, are
\* returned for a budget the three exceed
C16_Witness ==
    /\ Trimmed
    /\ trimMaxTokens >= 1
    /\ strategy = "late"
    /\ Available > 0
    /\ Len(messages) = 3
    /\ Len(trimmed) = 2
    /\ SystemOf(trimmed) # <<>>

\* the text of a chunk made of the parts ps: joined by newlines, none before
\* the first part that makes the chunk non-empty
RECURSIVE JoinParts(_)
JoinParts(ps) ==
    IF ps = <<>> THEN <<>>
    ELSE LET front == JoinParts(SubSeq(ps, 1, Len(ps) - 1))
         IN  front \o (IF front # <<>> THEN <<"\n">> ELSE <<>>) \o ps[Len(ps)].text

\* the k-th group of ps when it is cut after the positions in cuts
GroupOf(cuts, i) == 1 + Cardinality({c \in cuts : c < i})
Group(ps, cuts, k) == SelectSeq([i \in 1 .. Len(ps) |-> [at |-> i, part |-> ps[i]]],
                                LAMBDA e : GroupOf(cuts, e.at) = k)
GroupTokens(g) == Sum([i \in 1 .. Len(g) |-> g[i].part.tokens])
GroupText(g) == JoinParts([i \in 1 .. Len(g) |-> g[i].part])

\* cs are the parts ps cut into consecutive groups in order, each within the
\* ceiling, none able to take the first part of the next one
GreedyPacking(ps, cs, ceiling) ==
    \E cuts \in SUBSET (1 .. Len(ps) - 1) :
        /\ Cardinality(cuts) + 1 = Len(cs)
        /\ \A k \in 1 .. Len(cs) :
               /\ GroupText(Group(ps, cuts, k)) = cs[k]
               /\ GroupTokens(Group(ps, cuts, k)) <= ceiling
        /\ \A k \in 1 .. Len(cs) - 1 :
               GroupTokens(Group(ps, cuts, k)) + Group(ps, cuts, k + 1)[1].part.tokens
                   > ceiling

Packed == pc = "returned" /\ next > Len(parts) /\ parts # <<>>

C18_EmptyText ==
    (SplitEnded /\ text = <<>>) =>
        (pc = "returned" /\ chunks = <<>> /\ counted = <<>>)

\* the empty text came back as no chunk for a positive ceiling
C18_Witness ==
    /\ pc = "returned"
    /\ text = <<>>
    /\ maxTokens = MaxCeiling
    /\ ~preserveSentences
    /\ chunks = <<>>

\* C19: for a non-empty text and a maxTokens <= 0 the call returns [text],
\* throws nothing and makes no counting call.
C19_NonPositiveCeiling ==
    (SplitEnded /\ text # <<>> /\ maxTokens <= 0) =>
        (pc = "returned" /\ chunks = <<text>> /\ counted = <<>> /\ error = "none")

\* a text of several words came back whole for a negative ceiling
C19_Witness ==
    /\ pc = "returned"
    /\ maxTokens < 0
    /\ Len(WordsOf(text)) >= 3
    /\ chunks = <<text>>

\* C20: a call with a maxTokens and an empty message list returns the empty
\* list and makes no counting call.
C20_EmptyConversation ==
    (TrimEnded /\ messages = <<>> /\ trimMaxTokens # 0) =>
        (trimPc = "returned" /\ trimmed = <<>> /\ trimCounted = <<>>)

\* the empty conversation came back empty for a budget smaller than the
\* conversation overhead
C20_Witness ==
    /\ trimPc = "returned"
    /\ messages = <<>>
    /\ trimMaxTokens = 1
    /\ trimmed = <<>>
    /\ trimCounted = <<>>

\* C21: no returned chunk is the empty string, also when a pass left empty
\* parts.
C21_NoEmptyChunks ==
    pc = "returned" => \A i \in 1 .. Len(chunks) : chunks[i] # <<>>

\* chunks were packed from parts of which the first and another one are empty
C21_Witness ==
    /\ Packed
    /\ parts[1].text = <<>>
    /\ \E i \in 2 .. Len(parts) : parts[i].text = <<>>
    /\ Len(chunks) >= 2

Grouped(ps, cs, ceiling) ==
    IF ps = <<>> THEN cs = <<>>
    ELSE \E cuts \in SUBSET (1 .. Len(ps) - 1) :
            /\ Cardinality(cuts) + 1 = Len(cs)
            /\ \A k \in 1 .. Len(cs) :
                   /\ GroupText(Group(ps, cuts, k)) = cs[k]
                   /\ GroupTokens(Group(ps, cuts, k)) <= ceiling

\* C26: at every step of the packing loop the open chunk is the newline-join
\* of the last parts taken, currentTokens is the sum of their counts and is
\* <= maxTokens, and the chunks pushed so far are the parts before them, in
\* consecutive groups whose counts sum to <= maxTokens.
C26_PackingLoopInvariant ==
    pc = "pack" =>
        /\ currentTokens <= maxTokens
        /\ \E s \in 1 .. next :
               LET open == SubSeq(parts, s, next - 1)
               IN  /\ JoinParts(open) = currentChunk
                   /\ Sum([i \in 1 .. Len(open) |-> open[i].tokens]) = currentTokens
                   /\ Grouped(SubSeq(parts, 1, s - 1), chunks, maxTokens)

\* the loop has pushed a chunk of two parts and holds an open chunk of two
C26_Witness ==
    /\ pc = "pack"
    /\ next = 5
    /\ chunks = << <<"a", "\n", "a">> >>
    /\ currentChunk = <<"a", "\n", "a">>
    /\ currentTokens = 2

IsSubstring(t, u) ==
    \E i \in 1 .. Len(u) + 1 : i + Len(t) - 1 <= Len(u) /\ SubSeq(u, i, i + Len(t) - 1) = t

\* new is old refined by one pass: a part within the ceiling stays as it is,
\* a larger one gives way, in place, to pieces of its text that hold its words
\* in order, and calls are the counting calls of the pass: one for each such
\* piece, in order, with the count the piece carries
RECURSIVE Refines(_, _, _, _)
Refines(old, new, calls, ceiling) ==
    IF old = <<>> THEN new = <<>> /\ calls = <<>>
    ELSE IF Head(old).tokens <= ceiling
         THEN /\ new # <<>>
              /\ Head(new) = Head(old)
              /\ Refines(Tail(old), Tail(new), calls, ceiling)
         ELSE \E n \in 1 .. Len(new) :
                /\ n <= Len(calls)
                /\ WordsOfAll([j \in 1 .. n |-> new[j].text]) = WordsOf(Head(old).text)
                /\ \A j \in 1 .. n :
                       /\ IsSubstring(new[j].text, Head(old).text)
                       /\ calls[j].text = new[j].text
                       /\ calls[j].tokens = new[j].tokens
                /\ Refines(Tail(old), SubSeq(new, n + 1, Len(new)),
                           SubSeq(calls, n + 1, Len(calls)), ceiling)

\* C23: a pass carries a part within the ceiling over unchanged and uncounted,
\* replaces a larger part in place by its pieces, each counted once, and keeps
\* the source order; between the passes and until packing the parts do not
\* change.
C23_PassesRefine ==
    [][IF pc = "pass" /\ pass' = pass + 1
       THEN Refines(parts, parts', SubSeq(counted', Len(counted) + 1, Len(counted')),
                    maxTokens)
       ELSE pc \in {"pass", "pack"} => parts' = parts]_vars

\* after three passes a part kept since the first pass stands before the
\* pieces of a part split by the last one
C23_Witness ==
    /\ pc = "pass"
    /\ pass = 4
    /\ text = <<"a", "\n", "a", " ", "a">>
    /\ Len(parts) = 3
    /\ Len(counted) = 6

(***************************************************************************)
(* The provider registry.                                                  *)
(***************************************************************************)
HasSlash(name) == \E i \in 1 .. Len(name) : name[i] = Slash

\* a step that is a call of the operation, and not of configure
Called(op) == outcome'.op = op

\* the call left the registry as it found it
RegistryUntouched ==
    /\ providers' = providers
    /\ constructed' = constructed
    /\ config' = config

\* C22: embedText rejects a model string without a slash with the
\* invalid-format error and a well-formed string that is not an embedding
\* model with the 'does not support embedding functionality' error, in every
\* configuration and environment, without entering createProvider (where the
\* API key is looked up) and leaving the cache of instances as it was.
C22_ValidationOrder ==
    [][Called("embedText") =>
          /\ ~HasSlash(outcome'.model) =>
                /\ outcome'.ended = "Invalid model format"
                /\ ~outcome'.createProviderEntered
                /\ outcome'.instance = 0
                /\ RegistryUntouched
          /\ HasSlash(outcome'.model) /\ outcome'.model \notin EMBEDDING_MODELS =>
                /\ outcome'.ended = "does not support embedding functionality"
                /\ ~outcome'.createProviderEntered
                /\ outcome'.instance = 0
                /\ RegistryUntouched]_vars

\* a chat model of a provider whose key is configured was rejected, and no
\* instance is cached
C22_Witness ==
    /\ outcome.op = "embedText"
    /\ outcome.model = <<"openai", Slash, "gpt-4o">>
    /\ outcome.ended = "does not support embedding functionality"
    /\ Configured(config, "openai").apiKey = "k1"
    /\ providers = Empty

\* the provider a well-formed model string names
ProviderOf(name) == name[1]

\* the key an instance of the provider is to be built with: the configured
\* one, else the one of the environment
KeyFor(name) ==
    IF name \in DOMAIN config /\ config[name].apiKey # "none"
    THEN config[name].apiKey
    ELSE IF name = "google" /\ "GEMINI_API_KEY" \in DOMAIN env
    THEN env["GEMINI_API_KEY"]
    ELSE "none"

\* the instance was built from the configuration as it is now
BuiltFromConfig(name, instance) ==
    IF name = "vertex"
    THEN /\ instance.kind = "VertexAIProvider"
         /\ instance.settings.projectId = config["vertex"].projectId
         /\ instance.settings.projectId # "none"
    ELSE /\ instance.settings.apiKey = KeyFor(name)
         /\ instance.settings.apiKey # "none"
         /\ instance.settings.baseURL =
               (IF name = "google" THEN "none" ELSE Configured(config, name).baseURL)

\* C29: configure merges newConfig over the stored configuration, entry by
\* entry, and empties the cache of instances; a call that is handed to a
\* provider reuses the instance cached under the provider's name when there
\* is one, whichever operation cached it, and otherwise constructs one from
\* the configuration as it is now and caches it under that name only; a
\* call that fails caches nothing; no call replaces or drops a cached
\* instance.
C29_RegistryLifecycle ==
    [][/\ Called("configure") =>
             /\ providers' = Empty
             /\ constructed' = constructed
             /\ \E newConfig \in NewConfigs :
                   /\ DOMAIN config' = DOMAIN config \cup DOMAIN newConfig
                   /\ \A n \in DOMAIN newConfig : config'[n] = newConfig[n]
                   /\ \A n \in DOMAIN config \ DOMAIN newConfig :
                         config'[n] = config[n]
       /\ Called("embedText") \/ Called("countTokens") =>
             /\ config' = config
             /\ \A n \in DOMAIN providers :
                   n \in DOMAIN providers' /\ providers'[n] = providers[n]
             /\ outcome'.ended # "returned" =>
                   providers' = providers /\ constructed' = constructed
             /\ outcome'.ended = "returned" =>
                   LET name == ProviderOf(outcome'.model)
                   IN IF name \in DOMAIN providers
                      THEN /\ providers' = providers
                           /\ constructed' = constructed
                           /\ outcome'.instance = providers[name].id
                      ELSE /\ DOMAIN providers' = DOMAIN providers \cup {name}
                           /\ constructed' = constructed + 1
                           /\ providers'[name].id = constructed'
                           /\ outcome'.instance = constructed'
                           /\ BuiltFromConfig(name, providers'[name])]_vars

\* after a configure call that changed the key, the only cached instance
\* is a second one, built with the new key
C29_Witness ==
    /\ constructed = 2
    /\ DOMAIN providers = {"openai"}
    /\ providers["openai"].id = 2
    /\ providers["openai"].settings.apiKey = "k2"
    /\ outcome.op = "embedText"
    /\ outcome.instance = 2

(***************************************************************************)
(* The countTokens adapters.                                               *)
(***************************************************************************)
Retried(status) == status = 429 \/ status \in 500 .. 599

LastAttempt == attemptLog[Len(attemptLog)]

RequestKey ==
    <<IF adapter = "google" /\ request.model = "gemini-embedding-001"
      THEN "gemini-2.5-flash"
      ELSE request.model>> \o <<":">> \o request.text

\* C30, as stated: a call whose model and text were counted by an earlier
\* successful request returns that count without a request.
C30_CachedForeverAsStated ==
    adapterPc = "ended" /\ ending.wasStored =>
        /\ attemptLog = <<>>
        /\ ending.kind = "returned"
        /\ ending.value = ending.storedCount

\* C30: a call makes at most 3 requests; a request is followed by another
\* only when it failed with status 429 or 5xx; a failure with any other
\* status, or without one, and the third failure end the call with that
\* failure; the cache holds only counts that successful requests returned,
\* a successful request's count is returned and is the cache's most recently
\* used entry, and a call that finds its key in the cache returns the cached
\* count without a request.  The cache is bounded: a key that was counted
\* is found only while it is among the most recently used ones.
C30_BoundedRetryAndCache ==
    /\ Len(attemptLog) <= 3
    /\ \A i \in 1 .. Len(attemptLog) - 1 :
          ~attemptLog[i].ok /\ Retried(attemptLog[i].status)
    /\ adapterPc = "attempting" /\ attemptLog # <<>> =>
          /\ ~LastAttempt.ok
          /\ Retried(LastAttempt.status)
          /\ Len(attemptLog) < 3
    /\ adapterPc = "ended" /\ attemptLog # <<>> =>
          IF LastAttempt.ok
          THEN /\ ending.kind = "returned"
               /\ ending.value = LastAttempt.count
               /\ tokenCountCache[Len(tokenCountCache)] =
                     [key |-> RequestKey, count |-> LastAttempt.count]
          ELSE /\ ending.kind = "threw"
               /\ ending.value = LastAttempt.status
               /\ Retried(LastAttempt.status) => Len(attemptLog) = 3
    /\ \A i \in 1 .. Len(tokenCountCache) :
          /\ tokenCountCache[i].key \in DOMAIN stored
          /\ tokenCountCache[i].count = stored[tokenCountCache[i].key]
          /\ \A j \in 1 .. Len(tokenCountCache) :
                tokenCountCache[i].key = tokenCountCache[j].key => i = j
    /\ Len(tokenCountCache) <= MaxCached
    /\ adapterPc = "ended" /\ ending.wasCached =>
          /\ attemptLog = <<>>
          /\ ending.wasStored
          /\ ending.kind = "returned"
          /\ ending.value = ending.storedCount
    /\ adapterPc = "ended" /\ attemptLog = <<>> /\ ~ending.wasCached =>
          /\ adapter = "google"
          /\ request.text = <<>>
          /\ ending.kind = "returned"
          /\ ending.value = 0

\* a call ended with the failure of its third request while counts of
\* other texts were cached
C30_Witness ==
    /\ adapterPc = "ended"
    /\ ending.kind = "threw"
    /\ Len(attemptLog) = 3
    /\ ending.value = 500
    /\ tokenCountCache # <<>>

(***************************************************************************)
(* The passes, call by call.                                               *)
(***************************************************************************)
\* a pass done one part and one segment after the other
RECURSIVE OneByOne(_, _, _)
OneByOne(ps, k, ceiling) ==
    IF ps = <<>> THEN <<>>
    ELSE (IF Head(ps).tokens <= ceiling
          THEN <<Head(ps)>>
          ELSE LET segs == split(Head(ps).text, k)
               IN [i \in 1 .. Len(segs) |->
                      [text |-> segs[i], tokens |-> Len(WordsOf(segs[i]))]])
         \o OneByOne(Tail(ps), k, ceiling)

\* the passes 1 .. last done one after the other
RECURSIVE Sequentially(_, _, _, _)
Sequentially(ps, k, last, ceiling) ==
    IF k > last THEN ps
    ELSE Sequentially(OneByOne(ps, k, ceiling), k + 1, last, ceiling)

IsIssue(e) == e.kind = "issued"
IsReturn(e) == e.kind = "returned"

\* C24: the counting calls of a pass are all issued before any of them
\* returns, and they return in any order; a call of a later pass is issued
\* only after every call of the earlier passes has returned; and when a
\* pass is over, in whatever order its calls returned, the parts (texts,
\* counts and order) are those of the passes done one call after the other.
C24_FanOutFanIn ==
    /\ \A i, j \in 1 .. Len(events) :
          /\ IsIssue(events[i]) /\ IsReturn(events[j])
                /\ events[i].pass = events[j].pass => i < j
          /\ IsIssue(events[i]) /\ IsIssue(events[j])
                /\ events[i].pass < events[j].pass =>
                \E r \in i + 1 .. j - 1 :
                    events[r] = [events[i] EXCEPT !.kind = "returned"]
          /\ IsReturn(events[i]) /\ IsReturn(events[j]) /\ i # j =>
                <<events[i].pass, events[i].slot>> # <<events[j].pass, events[j].slot>>
    /\ inFlight =
          {at \in 1 .. Len(slots) :
              /\ \E i \in 1 .. Len(events) : events[i] = Issued(fanPass, at)
              /\ ~\E i \in 1 .. Len(events) : events[i] = Returned(fanPass, at)}
    /\ fanPc \in {"issue", "passed"} =>
          fanParts =
             Sequentially(<<[text |-> fanArgs.text,
                             tokens |-> Len(WordsOf(fanArgs.text))]>>,
                          1, fanPass - 1, fanArgs.maxTokens)

\* a pass is over whose calls, for segments that differ, returned in the
\* reverse of the order they were issued in
C24_Witness ==
    /\ fanPc \in {"issue", "passed"}
    /\ \E i, j \in 1 .. Len(events) :
          /\ i < j
          /\ IsReturn(events[i]) /\ IsReturn(events[j])
          /\ events[i].pass = events[j].pass
          /\ events[i].slot > events[j].slot
          /\ events[i].pass = fanPass - 1
          /\ results[events[i].slot] # results[events[j].slot]

(***************************************************************************)
(* trimMessages called twice.                                              *)
(***************************************************************************)
SecondReturned(run) == twicePc = "returned" /\ secondCall.run = run

\* the cost a counted entry was given
CostOf(entries) == Sum([i \in 1 .. Len(entries) |-> entries[i].tokens]) + 2

\* C27: with a counting function that does not change, trimMessages called
\* with maxTokens >= 1 on the messages an earlier call with the same
\* maxTokens, strategy and preserveSystem returned, returns these messages
\* unchanged.
C27_Idempotent ==
    SecondReturned("again") /\ twiceArgs.maxTokens >= 1 =>
        /\ secondCall.maxTokens = twiceArgs.maxTokens
        /\ secondCall.returned.messages = firstCall.messages

\* the first call dropped a message and returned system messages that alone
\* are over the budget, and the call on its output has returned
C27_Witness ==
    /\ SecondReturned("again")
    /\ firstCall.messages # twiceArgs.messages
    /\ firstCall.messages # <<>>
    /\ CostOf(firstCall.entries) > twiceArgs.maxTokens

\* C28: with a counting function that does not change, every message (a
\* position of the message list) that trimMessages returns with
\* maxTokens1 >= 1 is also returned with any maxTokens2 >= maxTokens1, the
\* messages, strategy and preserveSystem being the same.
C28_MonotoneInBudget ==
    SecondReturned("larger") /\ twiceArgs.maxTokens >= 1 =>
        /\ secondCall.maxTokens >= twiceArgs.maxTokens
        /\ \A i \in 1 .. Len(firstCall.entries) :
              \E j \in 1 .. Len(secondCall.returned.entries) :
                  /\ secondCall.returned.entries[j].index = firstCall.entries[i].index
                  /\ secondCall.returned.messages[j] = firstCall.messages[i]
        /\ IsSubsequence(firstCall.messages, secondCall.returned.messages)

\* the larger budget kept what the smaller one returned and a message more,
\* and still dropped one
C28_Witness ==
    /\ SecondReturned("larger")
    /\ firstCall.messages # <<>>
    /\ Len(secondCall.returned.messages) > Len(firstCall.messages)
    /\ Len(secondCall.returned.messages) < Len(twiceArgs.messages)
    /\ secondCall.maxTokens > twiceArgs.maxTokens

=============================================================================
